---- MODULE Spec2Model ----
(***************************************************************************)
(* Credit scoring service: the artifact store (CreditScorePredictor and    *)
(* the get_predictor singleton), the feature vectorizer, the scorer and    *)
(* the decision engine of src/api/predictor.py, with the request boundary  *)
(* of src/api/models.py and src/api/main.py.                               *)
(*                                                                         *)
(* Floats are fixed-point integers in hundredths: 0.5 is 50, 1.0 is 100.   *)
(* A Python value is a tagged record, so that None, NaN and numbers are    *)
(* distinct values that can be compared with each other. The values of a   *)
(* feature map are floats (Dict[str, float]) and enter the float64 array   *)
(* unchanged. The artifact files do not change while the process runs.     *)
(***************************************************************************)
EXTENDS Integers, Sequences, FiniteSets, TLC

VARIABLES
    files,       \* the artifact files on disk: model, explainer, feature_names, threshold
    features,    \* the feature map the caller holds (a dict, in insertion order)
    app,         \* the application: "init" (lifespan not run), "serving", "failed"
    _predictor,  \* the module global _predictor: None or the cached instance
    reads,       \* per artifact file, how many times it was read to the end
    loads,       \* how many times _load_artifacts has run
    returned,    \* the ids of the instances get_predictor has returned
    last,        \* the last call made and what it returned or raised
    running      \* the calls in progress on concurrent threads, step by step

vars == <<files, features, app, _predictor, reads, loads, returned, last, running>>

----------------------------------------------------------------------------
(* Bounds *)

MaxSchemaLen == 2   \* longest feature schema
MaxMapLen == 2      \* most entries in a feature map
MaxLoads == 2       \* most runs of _load_artifacts in one behaviour
MaxBatch == 2       \* most clients in a batch request
MaxFeatures == 3    \* longest feature schema explained

(* Program constants: the default threshold (0.5, in hundredths) and the
   default top_n of get_feature_importance *)
DEFAULT_THRESHOLD == 50
DEFAULT_TOP_N == 10

----------------------------------------------------------------------------
(* Python values *)

None == [kind |-> "None"]
NaN == [kind |-> "nan"]
Num(v) == [kind |-> "num", v |-> v]
Str(s) == [kind |-> "str", s |-> s]
IsNum(x) == x.kind = "num"

Range(s) == {s[i] : i \in DOMAIN s}
Injective(s) == \A i, j \in DOMAIN s : s[i] = s[j] => i = j
SeqsUpTo(S, n) == UNION {[1..k -> S] : k \in 0..n}

----------------------------------------------------------------------------
(* Input domains *)

SchemaNames == {"a", "b"}
UnknownNames == {"z"}
FeatureValues == {Num(1), Num(3)}

\* A feature schema: the non-empty ordered list of names unpickled from the
\* feature-names file (nothing in the code makes the names distinct).
Schemas == {s \in SeqsUpTo(SchemaNames, MaxSchemaLen) : Len(s) > 0}

\* A dict is the sequence of its items in insertion order; keys are unique.
Dicts == {d \in SeqsUpTo((SchemaNames \cup UnknownNames) \X FeatureValues, MaxMapLen) :
            \A i, j \in DOMAIN d : d[i][1] = d[j][1] => i = j}

Keys(d) == {d[i][1] : i \in DOMAIN d}
Get(d, k) == d[CHOOSE i \in DOMAIN d : d[i][1] = k][2]

\* The pickled model: a scorer with a bias and a weight on the sum of the
\* feature values it is given (its imputer reads a missing value as 0).
Models == {[bias |-> 48, weight |-> 0], [bias |-> 40, weight |-> 10]}
\* The pickled explainer: a base value and, per feature, an attribution that
\* grows with the feature's value around a pivot (a missing value reads as 0).
Explainers == {[base |-> 10, scale |-> 5, pivot |-> 2]}

\* Explainers that return a fixed attribution array, whatever the row: every
\* array of signs, zeros, ties and magnitudes over a few values.
AttributionValues == {-10, -5, 0, 5, 10}
TableExplainers == {[base |-> 10, table |-> t] : t \in [1..MaxFeatures -> AttributionValues]}

\* The values of top_n: negative, zero, small, and the default.
TopNs == {-1, 0, 1, 2, DEFAULT_TOP_N}

Missing == [kind |-> "missing"]
Pickled(obj) == [kind |-> "pickle", obj |-> obj]

\* The threshold file: absent, not a JSON object, or a JSON object.
ThresholdFiles ==
    {[kind |-> "absent"], [kind |-> "corrupt"], [kind |-> "json", data |-> <<>>]}
    \cup {[kind |-> "json", data |-> ("threshold" :> v)] : v \in {Num(48), Num(0), None}}

Thresholds == {None, Num(0), Num(48), Num(80)}   \* the threshold argument of predict

----------------------------------------------------------------------------
(* Artifact store *)

NoReads == [model |-> 0, explainer |-> 0, feature_names |-> 0, threshold |-> 0]

\* dict.get(key, default)
DictGet(d, key, default) == IF key \in DOMAIN d THEN d[key] ELSE default

\* LoadThreshold with a missing threshold file treated like any other missing file.
LoadThresholdRequired(tf, current) ==
    IF tf.kind \in {"absent", "corrupt"}
    THEN [raised |-> TRUE, threshold |-> current, read |-> 0]
    ELSE [raised |-> FALSE,
          threshold |-> DictGet(tf.data, "threshold", Num(DEFAULT_THRESHOLD)),
          read |-> 1]

\* The threshold branch of _load_artifacts: the value of self.threshold after
\* it, or a raise when the file exists and cannot be read as a JSON object.
LoadThreshold(tf, current) ==
    IF tf.kind = "absent" THEN [raised |-> FALSE, threshold |-> current, read |-> 0]
    ELSE IF tf.kind = "corrupt" THEN [raised |-> TRUE, threshold |-> current, read |-> 0]
    ELSE [raised |-> FALSE,
          threshold |-> DictGet(tf.data, "threshold", Num(DEFAULT_THRESHOLD)),
          read |-> 1]

\* _load_artifacts going on without the explainer when its file is missing.
load_without_explainer(self, fs) ==
    IF fs.model = Missing
    THEN [raised |-> TRUE, self |-> self, read |-> NoReads]
    ELSE IF fs.feature_names = Missing
    THEN [raised |-> TRUE,
          self |-> [self EXCEPT !.model = fs.model.obj],
          read |-> [NoReads EXCEPT !.model = 1]]
    ELSE LET t == LoadThreshold(fs.threshold, self.threshold)
         IN  [raised |-> t.raised,
              self |-> [self EXCEPT !.model = fs.model.obj,
                                    !.explainer = IF fs.explainer = Missing THEN None
                                                  ELSE fs.explainer.obj,
                                    !.feature_names = fs.feature_names.obj,
                                    !.threshold = t.threshold],
              read |-> [model |-> 1,
                        explainer |-> IF fs.explainer = Missing THEN 0 ELSE 1,
                        feature_names |-> 1, threshold |-> t.read]]

\* _load_artifacts on a fresh instance: the files are read in the order model,
\* explainer, feature names, threshold; the first failure is re-raised and
\* the later files are not touched.
_load_artifacts(self, fs) ==
    IF fs.model = Missing
    THEN [raised |-> TRUE, self |-> self, read |-> NoReads]
    ELSE IF fs.explainer = Missing
    THEN [raised |-> TRUE, self |-> [self EXCEPT !.model = fs.model.obj],
          read |-> [NoReads EXCEPT !.model = 1]]
    ELSE IF fs.feature_names = Missing
    THEN [raised |-> TRUE,
          self |-> [self EXCEPT !.model = fs.model.obj, !.explainer = fs.explainer.obj],
          read |-> [NoReads EXCEPT !.model = 1, !.explainer = 1]]
    ELSE LET t == LoadThreshold(fs.threshold, self.threshold)
         IN  [raised |-> t.raised,
              self |-> [self EXCEPT !.model = fs.model.obj,
                                    !.explainer = fs.explainer.obj,
                                    !.feature_names = fs.feature_names.obj,
                                    !.threshold = t.threshold],
              read |-> [model |-> 1, explainer |-> 1, feature_names |-> 1,
                        threshold |-> t.read]]

\* CreditScorePredictor(): __init__ sets the fields and loads the artifacts;
\* the caller gets the instance only when loading did not raise.
CreditScorePredictor(id, fs) ==
    _load_artifacts([id |-> id, model |-> None, explainer |-> None,
                     feature_names |-> None, threshold |-> Num(DEFAULT_THRESHOLD)], fs)

\* get_predictor without the test of the global: every call constructs.
get_predictor_uncached(g, id, fs) ==
    LET c == CreditScorePredictor(id, fs)
    IN  IF c.raised
        THEN [raised |-> TRUE, global |-> g, ret |-> None, read |-> c.read, loads |-> 1]
        ELSE [raised |-> FALSE, global |-> c.self, ret |-> c.self, read |-> c.read,
              loads |-> 1]

\* get_predictor that binds the global to the instance before it is loaded.
get_predictor_early_bind(g, id, fs) ==
    IF g = None
    THEN LET c == CreditScorePredictor(id, fs)
         IN  [raised |-> c.raised, global |-> c.self,
              ret |-> IF c.raised THEN None ELSE c.self, read |-> c.read, loads |-> 1]
    ELSE [raised |-> FALSE, global |-> g, ret |-> g, read |-> NoReads, loads |-> 0]

\* get_predictor() with the global at g: the global after the call, the
\* instance returned (when not raised) and the files read by the call.
get_predictor(g, id, fs) ==
    IF g = None
    THEN LET c == CreditScorePredictor(id, fs)
         IN  IF c.raised
             THEN [raised |-> TRUE, global |-> g, ret |-> None, read |-> c.read, loads |-> 1]
             ELSE [raised |-> FALSE, global |-> c.self, ret |-> c.self, read |-> c.read,
                   loads |-> 1]
    ELSE [raised |-> FALSE, global |-> g, ret |-> g, read |-> NoReads, loads |-> 0]

is_loaded(self) == self.model # None
get_threshold(self) == self.threshold

----------------------------------------------------------------------------
(* Feature vectorizer *)

\* np.zeros(n)
Zeros(n) == [i \in 1..n |-> Num(0)]

\* The loop of _prepare_features from position i on: entry i of the array is
\* assigned the dict's value for the schema name at i, or NaN.
RECURSIVE FillFrom(_, _, _, _)
FillFrom(arr, names, d, i) ==
    IF i > Len(names) THEN arr
    ELSE FillFrom([arr EXCEPT ![i] = IF names[i] \in Keys(d) THEN Get(d, names[i]) ELSE NaN],
                  names, d, i + 1)

\* _prepare_features laying the values out in the dict's own order.
prepare_by_insertion(self, d) ==
    [raised |-> FALSE, error |-> "none",
     X |-> [i \in 1..Len(self.feature_names) |-> IF i <= Len(d) THEN d[i][2] ELSE NaN]]

\* _prepare_features refusing a dict with a name the schema does not have.
prepare_known_only(self, d) ==
    IF Keys(d) \subseteq Range(self.feature_names)
    THEN [raised |-> FALSE, error |-> "none",
          X |-> FillFrom(Zeros(Len(self.feature_names)), self.feature_names, d, 1)]
    ELSE [raised |-> TRUE, error |-> "KeyError", X |-> None]

\* _prepare_features without the else branch: a missing feature stays 0.
prepare_zero_filled(self, d) ==
    [raised |-> FALSE, error |-> "none",
     X |-> [i \in 1..Len(self.feature_names) |->
              IF self.feature_names[i] \in Keys(d) THEN Get(d, self.feature_names[i])
              ELSE Num(0)]]

\* features_array[0, i] = value on the float array: a value that is not a
\* number cannot be stored, the assignment raises ValueError.
Unstorable(names, d) ==
    \E i \in DOMAIN names : names[i] \in Keys(d) /\ Get(d, names[i]).kind = "str"

\* _prepare_features(features_dict): the single row of the array it returns,
\* or the error of the first assignment that fails.
_prepare_features(self, d) ==
    IF Unstorable(self.feature_names, d)
    THEN [raised |-> TRUE, error |-> "ValueError", X |-> None]
    ELSE [raised |-> FALSE, error |-> "none",
          X |-> FillFrom(Zeros(Len(self.feature_names)), self.feature_names, d, 1)]

----------------------------------------------------------------------------
(* Scorer *)

Clamp(x) == IF x < 0 THEN 0 ELSE IF x > 100 THEN 100 ELSE x

RECURSIVE SumFrom(_, _)
SumFrom(X, i) ==
    IF i > Len(X) THEN 0 ELSE (IF IsNum(X[i]) THEN X[i].v ELSE 0) + SumFrom(X, i + 1)

\* self.model.predict_proba(X)[0]: the class probabilities of the row.
ModelProba(m, X) ==
    LET p1 == Clamp(m.bias + m.weight * SumFrom(X, 1))
    IN  <<Num(100 - p1), Num(p1)>>

\* self.model.predict_proba(X) raising: a classifier that takes no missing
\* value rejects a row with a NaN in it.
ModelRaises(m, X) == "strict" \in DOMAIN m /\ \E i \in DOMAIN X : X[i] = NaN

\* predict_proba reading the default column of the row twice.
predict_proba_same_column(self, d) ==
    LET v == _prepare_features(self, d)
    IN  IF v.raised THEN [raised |-> TRUE, error |-> v.error, ret |-> None, calls |-> 0]
        ELSE IF ModelRaises(self.model, v.X)
        THEN [raised |-> TRUE, error |-> "ModelError", ret |-> None, calls |-> 1]
        ELSE [raised |-> FALSE, error |-> "none",
              ret |-> <<ModelProba(self.model, v.X)[2], ModelProba(self.model, v.X)[2]>>,
              calls |-> 1]

\* predict_proba answering an error with the pair (0.5, 0.5).
predict_proba_default_on_error(self, d) ==
    LET v == _prepare_features(self, d)
    IN  IF v.raised \/ ModelRaises(self.model, v.X)
        THEN [raised |-> FALSE, error |-> "none", ret |-> <<Num(50), Num(50)>>, calls |-> 0]
        ELSE [raised |-> FALSE, error |-> "none", ret |-> ModelProba(self.model, v.X),
              calls |-> 1]

\* predict_proba(features): (probability_no_default, probability_default)
predict_proba(self, d) ==
    LET v == _prepare_features(self, d)
    IN  IF v.raised THEN [raised |-> TRUE, error |-> v.error, ret |-> None, calls |-> 0]
        ELSE IF ModelRaises(self.model, v.X)
        THEN [raised |-> TRUE, error |-> "ModelError", ret |-> None, calls |-> 1]
        ELSE [raised |-> FALSE, error |-> "none", ret |-> ModelProba(self.model, v.X),
              calls |-> 1]

----------------------------------------------------------------------------
(* Decision engine *)

\* thresh = threshold or self.threshold: a threshold of 0 counts as not given.
ActiveThresholdTruthy(self, threshold) ==
    IF threshold # None /\ threshold # Num(0) THEN threshold ELSE self.threshold

\* thresh = threshold if threshold is not None else self.threshold
ActiveThreshold(self, threshold) == IF threshold # None THEN threshold ELSE self.threshold

\* The comparison with >= in place of >.
PredictionAtLeast(proba_default, thresh) == IF proba_default.v >= thresh.v THEN 1 ELSE 0

\* prediction = 1 if proba_default > thresh else 0
Prediction(proba_default, thresh) == IF proba_default.v > thresh.v THEN 1 ELSE 0

\* The labels without the inversion: class 1 approved.
DecisionNotInverted(prediction) == IF prediction = 1 THEN "APPROVED" ELSE "REJECTED"

\* decision = "REJECTED" if prediction == 1 else "APPROVED"
Decision(prediction) == IF prediction = 1 THEN "REJECTED" ELSE "APPROVED"

\* predict storing the threshold it used on the instance.
predict_keeps_threshold(self, threshold) ==
    IF IsNum(ActiveThreshold(self, threshold))
    THEN [self EXCEPT !.threshold = ActiveThreshold(self, threshold)]
    ELSE self

\* The instance after predict(features, threshold): predict assigns to no
\* attribute of self, the threshold it uses is a local.
predict_self(self, threshold) == self

\* predict(features, threshold): (prediction, decision), or the error raised:
\* comparing a float with a threshold that is None is a TypeError.
predict(self, d, threshold) ==
    LET pp == predict_proba(self, d)
        thresh == ActiveThreshold(self, threshold)
    IN  IF pp.raised
        THEN [raised |-> TRUE, error |-> pp.error, ret |-> None, thresh |-> None,
              calls |-> pp.calls]
        ELSE IF ~IsNum(thresh)
        THEN [raised |-> TRUE, error |-> "TypeError", ret |-> None, thresh |-> thresh,
              calls |-> pp.calls]
        ELSE LET prediction == Prediction(pp.ret[2], thresh)
             IN  [raised |-> FALSE, error |-> "none",
                  ret |-> <<prediction, Decision(prediction)>>,
                  thresh |-> thresh, calls |-> pp.calls]

----------------------------------------------------------------------------
(* Attribution engine *)

Abs(x) == IF x < 0 THEN -x ELSE x
Min(x, y) == IF x < y THEN x ELSE y
Max(x, y) == IF x > y THEN x ELSE y

\* self.explainer(X): values[0] and base_values[0] of the explanation.
Explain(e, X) ==
    [values |-> [i \in 1..Len(X) |->
                   IF "table" \in DOMAIN e
                   THEN e.table[((i - 1) % Len(e.table)) + 1]
                   ELSE e.scale * ((IF IsNum(X[i]) THEN X[i].v ELSE 0) - e.pivot)],
     base |-> e.base]

\* zip(a, b) stops at the shorter of the two.
Zip(a, b) == [i \in 1..Min(Len(a), Len(b)) |-> <<a[i], b[i]>>]

\* d[k] = v on a dict: a key already there keeps its place and gets the value.
DictPut(d, k, v) ==
    IF k \in Keys(d) THEN [i \in DOMAIN d |-> IF d[i][1] = k THEN <<k, v>> ELSE d[i]]
    ELSE Append(d, <<k, v>>)

\* {k: v for k, v in pairs}
RECURSIVE DictFrom(_, _, _)
DictFrom(pairs, i, acc) ==
    IF i > Len(pairs) THEN acc
    ELSE DictFrom(pairs, i + 1, DictPut(acc, pairs[i][1], pairs[i][2]))

\* The sort key without abs: descending by signed value.
RECURSIVE InsertBySigned(_, _)
InsertBySigned(sorted, x) ==
    IF sorted = <<>> THEN <<x>>
    ELSE IF Head(sorted)[2] >= x[2] THEN <<Head(sorted)>> \o InsertBySigned(Tail(sorted), x)
    ELSE <<x>> \o sorted

\* One step of a stable descending sort by abs(value): x goes after every
\* item that is at least as large.
RECURSIVE InsertByAbs(_, _)
InsertByAbs(sorted, x) ==
    IF sorted = <<>> THEN <<x>>
    ELSE IF Abs(Head(sorted)[2]) >= Abs(x[2]) THEN <<Head(sorted)>> \o InsertByAbs(Tail(sorted), x)
    ELSE <<x>> \o sorted

\* The items left in the order of the mapping.
Unsorted(items, i, acc) == items

\* sorted(items, key=lambda x: abs(x[1]), reverse=True)
RECURSIVE SortedByAbs(_, _, _)
SortedByAbs(items, i, acc) ==
    IF i > Len(items) THEN acc ELSE SortedByAbs(items, i + 1, InsertByAbs(acc, items[i]))

\* The sign tests with >= 0 and <= 0.
RECURSIVE PositiveOrZero(_)
PositiveOrZero(items) ==
    IF items = <<>> THEN <<>>
    ELSE (IF Head(items)[2] >= 0 THEN <<Head(items)>> ELSE <<>>) \o PositiveOrZero(Tail(items))

RECURSIVE NegativeOrZero(_)
NegativeOrZero(items) ==
    IF items = <<>> THEN <<>>
    ELSE (IF Head(items)[2] <= 0 THEN <<Head(items)>> ELSE <<>>) \o NegativeOrZero(Tail(items))

\* [x for x in items if keep(x)], for the two sign tests of the source
RECURSIVE Positive(_)
Positive(items) ==
    IF items = <<>> THEN <<>>
    ELSE (IF Head(items)[2] > 0 THEN <<Head(items)>> ELSE <<>>) \o Positive(Tail(items))

RECURSIVE Negative(_)
Negative(items) ==
    IF items = <<>> THEN <<>>
    ELSE (IF Head(items)[2] < 0 THEN <<Head(items)>> ELSE <<>>) \o Negative(Tail(items))

\* items[:n + 1]
SliceOneMore(items, n) ==
    SubSeq(items, 1, IF n + 1 >= 0 THEN Min(n + 1, Len(items)) ELSE Max(Len(items) + n + 1, 0))

\* items[:n]: a negative n counts from the end.
Slice(items, n) ==
    SubSeq(items, 1, IF n >= 0 THEN Min(n, Len(items)) ELSE Max(Len(items) + n, 0))

RECURSIVE SumSeq(_)
SumSeq(xs) == IF xs = <<>> THEN 0 ELSE Head(xs) + SumSeq(Tail(xs))

\* get_feature_importance replacing the schema by the names it ranked first.
importance_keeps_ranking(self, d, top_n) ==
    IF _prepare_features(self, d).raised THEN self ELSE
    LET ranked == SortedByAbs(DictFrom(Zip(self.feature_names,
                                           Explain(self.explainer,
                                                   _prepare_features(self, d).X).values),
                                       1, <<>>), 1, <<>>)
    IN  [self EXCEPT !.feature_names = [i \in DOMAIN Slice(ranked, top_n) |-> ranked[i][1]]]

\* The instance after get_feature_importance(features, top_n): it assigns to
\* no attribute of self; the ranking is built in new lists.
importance_self(self, d, top_n) == self

\* The result dict built from the explanation: the mapping by name, the two
\* ranked lists, the base value and the reconstructed prediction value.
Importance(feature_names, shap_values, top_n) ==
    LET shap_vals == shap_values.values
        base_value == shap_values.base
        shap_dict == DictFrom(Zip(feature_names, shap_vals), 1, <<>>)
        sorted_features == SortedByAbs(shap_dict, 1, <<>>)
    IN  [shap_values |-> shap_dict,
         top_positive_features |-> Slice(Positive(sorted_features), top_n),
         top_negative_features |-> Slice(Negative(sorted_features), top_n),
         base_value |-> base_value,
         prediction_value |-> base_value + SumSeq(shap_vals)]

\* self.explainer(X) raising: an attribute that is still None cannot be
\* called, and an explainer that takes no missing value rejects a row with a
\* NaN in it.
ExplainerRaises(e, X) ==
    \/ e = None
    \/ "strict" \in DOMAIN e /\ \E i \in DOMAIN X : X[i] = NaN

\* get_feature_importance answering a failed explanation with an empty result.
importance_empty_on_error(self, d, top_n) ==
    LET v == _prepare_features(self, d)
    IN  IF v.raised THEN [raised |-> TRUE, error |-> v.error, ret |-> None, calls |-> 0]
        ELSE IF ExplainerRaises(self.explainer, v.X)
        THEN [raised |-> FALSE, error |-> "none",
              ret |-> [shap_values |-> <<>>, top_positive_features |-> <<>>,
                       top_negative_features |-> <<>>, base_value |-> 0,
                       prediction_value |-> 0],
              calls |-> 1]
        ELSE [raised |-> FALSE, error |-> "none",
              ret |-> Importance(self.feature_names, Explain(self.explainer, v.X), top_n),
              calls |-> 1]

\* get_feature_importance(features, top_n)
get_feature_importance(self, d, top_n) ==
    LET v == _prepare_features(self, d)
    IN  IF v.raised THEN [raised |-> TRUE, error |-> v.error, ret |-> None, calls |-> 0]
        ELSE IF ExplainerRaises(self.explainer, v.X)
        THEN [raised |-> TRUE, error |-> "ExplainerError", ret |-> None, calls |-> 1]
        ELSE [raised |-> FALSE, error |-> "none",
              ret |-> Importance(self.feature_names, Explain(self.explainer, v.X), top_n),
              calls |-> 1]

----------------------------------------------------------------------------
(* Request boundary *)

\* validate_features letting every dict through.
validate_features_any(v) == TRUE

\* ClientFeatures.validate_features: an empty dict is a validation error.
validate_features(v) == v # <<>>

\* The request body is validated before the endpoint function runs.
ValidClient(client) == validate_features(client.features)

\* The field constraints of PredictionResponse.
ValidPrediction(p0, p1, prediction, threshold_used) ==
    /\ IsNum(p0) /\ p0.v >= 0 /\ p0.v <= 100
    /\ IsNum(p1) /\ p1.v >= 0 /\ p1.v <= 100
    /\ prediction \in {0, 1}
    /\ IsNum(threshold_used)

NoFetch(g) == [raised |-> FALSE, global |-> g, ret |-> None, read |-> NoReads, loads |-> 0]

Unprocessable(g) == [status |-> 422, body |-> None, fetch |-> NoFetch(g), calls |-> 0]

\* The response reporting the configured default as the threshold used.
PredictionResponseDefaultThreshold(self, client, pp, pr) ==
    IF pp.raised THEN [raised |-> TRUE, error |-> pp.error, calls |-> pp.calls]
    ELSE IF pr.raised
    THEN [raised |-> TRUE, error |-> pr.error, calls |-> pp.calls + pr.calls]
    ELSE [raised |-> FALSE, calls |-> pp.calls + pr.calls,
          response |-> [client_id |-> client.client_id,
                        probability_default |-> pp.ret[2],
                        probability_no_default |-> pp.ret[1],
                        prediction |-> pr.ret[1],
                        decision |-> pr.ret[2],
                        threshold_used |-> Num(DEFAULT_THRESHOLD)]]

\* The response object built from the outcome pp of predict_proba and the
\* outcome pr of predict; predict is not reached when predict_proba raised.
PredictionResponse(self, client, pp, pr) ==
    IF pp.raised THEN [raised |-> TRUE, error |-> pp.error, calls |-> pp.calls]
    ELSE IF pr.raised
    THEN [raised |-> TRUE, error |-> pr.error, calls |-> pp.calls + pr.calls]
    ELSE IF ~ValidPrediction(pp.ret[1], pp.ret[2], pr.ret[1], get_threshold(self))
    THEN [raised |-> TRUE, error |-> "ValueError", calls |-> pp.calls + pr.calls]
    ELSE [raised |-> FALSE, calls |-> pp.calls + pr.calls,
          response |-> [client_id |-> client.client_id,
                        probability_default |-> pp.ret[2],
                        probability_no_default |-> pp.ret[1],
                        prediction |-> pr.ret[1],
                        decision |-> pr.ret[2],
                        threshold_used |-> get_threshold(self)]]

\* The body of one client's prediction, shared by /predict and the loop of
\* /predict/batch: predict_proba, predict, then the response object.
PredictionOf(self, client) ==
    PredictionResponse(self, client, predict_proba(self, client.features),
                       predict(self, client.features, None))

\* The answer of /predict to the outcome r of the prediction.
PredictAnswer(g, r) ==
    IF r.raised
    THEN [status |-> IF r.error = "ValueError" THEN 400 ELSE 500,
          body |-> None, fetch |-> g, calls |-> r.calls]
    ELSE [status |-> 200, body |-> r.response, fetch |-> g, calls |-> r.calls]

\* POST /predict: a ValueError (the response model's validation error is one)
\* is answered with 400, any other error with 500.
predict_endpoint(g0, id, fs, client) ==
    IF ~ValidClient(client) THEN Unprocessable(g0)
    ELSE LET g == get_predictor(g0, id, fs)
         IN  IF g.raised THEN [status |-> 500, body |-> None, fetch |-> g, calls |-> 0]
             ELSE PredictAnswer(g, PredictionOf(g.ret, client))

\* The loop body putting the prediction at the front of the list.
BatchPassPrepend(acc, r) ==
    IF r.raised THEN [acc EXCEPT !.raised = TRUE, !.calls = @ + r.calls]
    ELSE [acc EXCEPT !.predictions = <<r.response>> \o @,
                     !.approved_count =
                         IF r.response.decision = "APPROVED" THEN @ + 1 ELSE @,
                     !.rejected_count =
                         IF r.response.decision = "APPROVED" THEN @ ELSE @ + 1,
                     !.calls = @ + r.calls]

\* The loop body counting a rejection for every client, the else left out.
BatchPassCountsAll(acc, r) ==
    IF r.raised THEN [acc EXCEPT !.raised = TRUE, !.calls = @ + r.calls]
    ELSE [acc EXCEPT !.predictions = Append(@, r.response),
                     !.approved_count =
                         IF r.response.decision = "APPROVED" THEN @ + 1 ELSE @,
                     !.rejected_count = @ + 1,
                     !.calls = @ + r.calls]

\* The loop body with the try inside it: a client whose scoring fails is
\* skipped and the loop goes on.
BatchPassSkips(acc, r) ==
    IF r.raised THEN [acc EXCEPT !.calls = @ + r.calls]
    ELSE [acc EXCEPT !.predictions = Append(@, r.response),
                     !.approved_count =
                         IF r.response.decision = "APPROVED" THEN @ + 1 ELSE @,
                     !.rejected_count =
                         IF r.response.decision = "APPROVED" THEN @ ELSE @ + 1,
                     !.calls = @ + r.calls]

\* One pass of the loop body with the outcome r of the client's prediction:
\* the prediction appended and counted, or the error that leaves the loop.
BatchPass(acc, r) ==
    IF r.raised THEN [acc EXCEPT !.raised = TRUE, !.calls = @ + r.calls]
    ELSE [acc EXCEPT !.predictions = Append(@, r.response),
                     !.approved_count =
                         IF r.response.decision = "APPROVED" THEN @ + 1 ELSE @,
                     !.rejected_count =
                         IF r.response.decision = "APPROVED" THEN @ ELSE @ + 1,
                     !.calls = @ + r.calls]

\* The for loop of predict_batch from client i on.
RECURSIVE BatchLoop(_, _, _, _)
BatchLoop(self, clients, i, acc) ==
    IF i > Len(clients) \/ acc.raised THEN acc
    ELSE BatchLoop(self, clients, i + 1, BatchPass(acc, PredictionOf(self, clients[i])))

\* The answer of /predict/batch to the outcome b of the loop.
BatchAnswer(g, b) ==
    IF b.raised
    THEN [status |-> 500, body |-> None, fetch |-> g, calls |-> b.calls]
    ELSE [status |-> 200,
          body |-> [predictions |-> b.predictions,
                    total_clients |-> Len(b.predictions),
                    approved_count |-> b.approved_count,
                    rejected_count |-> b.rejected_count],
          fetch |-> g, calls |-> b.calls]

\* POST /predict/batch
predict_batch(g0, id, fs, clients) ==
    IF \E i \in DOMAIN clients : ~ValidClient(clients[i]) THEN Unprocessable(g0)
    ELSE LET g == get_predictor(g0, id, fs)
         IN  IF g.raised THEN [status |-> 500, body |-> None, fetch |-> g, calls |-> 0]
             ELSE BatchAnswer(g, BatchLoop(g.ret, clients, 1,
                                           [raised |-> FALSE, predictions |-> <<>>,
                                            approved_count |-> 0, rejected_count |-> 0,
                                            calls |-> 0]))

\* The answer of /feature-importance to the outcome r of the explanation.
ImportanceAnswer(g, client, r) ==
    IF r.raised
    THEN [status |-> 500, body |-> None, fetch |-> g, calls |-> r.calls]
    ELSE [status |-> 200, body |-> [client_id |-> client.client_id] @@ r.ret,
          fetch |-> g, calls |-> r.calls]

\* POST /feature-importance: get_feature_importance with the default top_n.
feature_importance(g0, id, fs, client) ==
    IF ~ValidClient(client) THEN Unprocessable(g0)
    ELSE LET g == get_predictor(g0, id, fs)
         IN  IF g.raised THEN [status |-> 500, body |-> None, fetch |-> g, calls |-> 0]
             ELSE ImportanceAnswer(g, client,
                     get_feature_importance(g.ret, client.features, DEFAULT_TOP_N))

----------------------------------------------------------------------------
(* State machine *)

ArtifactFiles ==
    [model : {Missing} \cup {Pickled(m) : m \in Models},
     explainer : {Missing} \cup {Pickled(e) : e \in Explainers},
     feature_names : {Missing} \cup {Pickled(s) : s \in Schemas},
     threshold : ThresholdFiles]

\* No call is in progress on a thread.
Idle == [calls |-> <<>>, row |-> None]

Init ==
    /\ files \in ArtifactFiles
    /\ features \in Dicts
    /\ app = "init"
    /\ _predictor = None
    /\ reads = NoReads
    /\ loads = 0
    /\ returned = {}
    /\ last = [op |-> "none"]
    /\ running = Idle

Plus(r, q) == [f \in DOMAIN r |-> r[f] + q[f]]

\* The state change of one get_predictor() call with outcome g.
Fetched(g) ==
    /\ _predictor' = g.global
    /\ reads' = Plus(reads, g.read)
    /\ loads' = loads + g.loads
    /\ returned' = IF g.raised \/ g.ret = None THEN returned ELSE returned \cup {g.ret.id}

CanFetch == _predictor # None \/ loads < MaxLoads

\* lifespan startup: get_predictor(), and the error re-raised aborts startup.
Lifespan ==
    /\ app = "init"
    /\ CanFetch
    /\ LET g == get_predictor(_predictor, loads + 1, files)
       IN  /\ Fetched(g)
           /\ app' = IF g.raised THEN "failed" ELSE "serving"
           /\ last' = [op |-> "lifespan", raised |-> g.raised]
    /\ UNCHANGED <<running, files, features>>

\* A direct call of get_predictor().
CallGetPredictor ==
    /\ app # "failed"
    /\ CanFetch
    /\ LET g == get_predictor(_predictor, loads + 1, files)
       IN  /\ Fetched(g)
           /\ last' = [op |-> "get_predictor", raised |-> g.raised, ret |-> g.ret]
    /\ UNCHANGED <<running, files, features, app>>

\* Calls on the instance get_predictor() returned.
Held == app # "failed" /\ _predictor # None

CallPrepareFeatures ==
    /\ Held
    /\ LET v == _prepare_features(_predictor, features)
       IN  last' = [op |-> "_prepare_features", raised |-> v.raised, X |-> v.X]
    /\ UNCHANGED <<running, files, features, app, _predictor, reads, loads, returned>>

CallPredictProba ==
    /\ Held
    /\ LET r == predict_proba(_predictor, features)
       IN  last' = [op |-> "predict_proba", raised |-> r.raised, error |-> r.error,
                    ret |-> r.ret]
    /\ UNCHANGED <<running, files, features, app, _predictor, reads, loads, returned>>

CallPredict ==
    /\ Held
    /\ \E t \in Thresholds :
         LET r == predict(_predictor, features, t)
         IN  /\ last' = [op |-> "predict", threshold |-> t, raised |-> r.raised,
                         error |-> r.error, ret |-> r.ret, thresh |-> r.thresh]
             /\ _predictor' = predict_self(_predictor, t)
    /\ UNCHANGED <<running, files, features, app, reads, loads, returned>>

\* predictor.get_feature_importance(features, top_n)
Explaining(top_n) ==
    LET r == get_feature_importance(_predictor, features, top_n)
    IN  /\ last' = [op |-> "get_feature_importance", top_n |-> top_n,
                    raised |-> r.raised, error |-> r.error, ret |-> r.ret]
        /\ _predictor' = importance_self(_predictor, features, top_n)
        /\ UNCHANGED <<running, files, features, app, reads, loads, returned>>

\* The call without top_n: the default applies.
CallGetFeatureImportance ==
    /\ Held
    /\ Explaining(DEFAULT_TOP_N)

\* The call with top_n given.
CallGetFeatureImportanceTopN ==
    /\ Held
    /\ \E top_n \in TopNs : Explaining(top_n)

CallGetThreshold ==
    /\ Held
    /\ last' = [op |-> "get_threshold", raised |-> FALSE, ret |-> get_threshold(_predictor)]
    /\ UNCHANGED <<running, files, features, app, _predictor, reads, loads, returned>>

CallIsLoaded ==
    /\ Held
    /\ last' = [op |-> "is_loaded", raised |-> FALSE, ret |-> is_loaded(_predictor)]
    /\ UNCHANGED <<running, files, features, app, _predictor, reads, loads, returned>>

\* The feature maps a request can carry: the caller's feature map, that map
\* without its last item, and the empty map.
Pool == {features, SubSeq(features, 1, Len(features) - 1), <<>>}

\* One client of a request, with or without a client id.
Clients == [features : Pool, client_id : {None, Str("A")}]

\* The client lists of a batch request: all without an id, or each with the
\* id of its position in the list.
Labelled(ds) == [i \in DOMAIN ds |-> [features |-> ds[i], client_id |-> Str(ToString(i))]]
Anonymous(ds) == [i \in DOMAIN ds |-> [features |-> ds[i], client_id |-> None]]
Batches == {Labelled(ds) : ds \in SeqsUpTo(Pool, MaxBatch)}
           \cup {Anonymous(ds) : ds \in SeqsUpTo(Pool, MaxBatch)}

Answered(op, request, r) ==
    /\ Fetched(r.fetch)
    /\ last' = [op |-> op, request |-> request, status |-> r.status, body |-> r.body,
                calls |-> r.calls, loads |-> r.fetch.loads]
    /\ UNCHANGED <<running, files, features, app>>

HttpPredict ==
    /\ app # "failed"
    /\ CanFetch
    /\ \E client \in Clients :
         Answered("/predict", client, predict_endpoint(_predictor, loads + 1, files, client))

HttpPredictBatch ==
    /\ app # "failed"
    /\ CanFetch
    /\ \E clients \in Batches :
         Answered("/predict/batch", clients,
                  predict_batch(_predictor, loads + 1, files, clients))

HttpFeatureImportance ==
    /\ app # "failed"
    /\ CanFetch
    /\ \E client \in Clients :
         Answered("/feature-importance", client,
                  feature_importance(_predictor, loads + 1, files, client))

Next ==
    \/ Lifespan
    \/ CallGetPredictor
    \/ CallPrepareFeatures
    \/ CallPredictProba
    \/ CallPredict
    \/ CallGetThreshold
    \/ CallIsLoaded
    \/ CallGetFeatureImportance

Spec == Init /\ [][Next]_vars

\* The attribution engine on its own: one scorer, no threshold file, every
\* fixed-array explainer and the value-driven one, and schemas in which
\* position i holds one of the first i names (a name may repeat).
ExplainNames == <<"a", "b", "c">>
ExplainSchemas ==
    {s \in SeqsUpTo(Range(ExplainNames), MaxFeatures) :
        /\ Len(s) > 0
        /\ \A i \in DOMAIN s :
             \E j \in 1..Min(i, Len(ExplainNames)) : s[i] = ExplainNames[j]}

ExplainFiles ==
    [model : {Pickled([bias |-> 40, weight |-> 10])},
     explainer : {Pickled(e) : e \in TableExplainers \cup Explainers},
     feature_names : {Pickled(s) : s \in ExplainSchemas},
     threshold : {[kind |-> "absent"]}]

ExplainDicts == {<<(<<"b", Num(3)>>), (<<"a", Num(1)>>)>>}

InitExplain ==
    /\ files \in ExplainFiles
    /\ features \in ExplainDicts
    /\ app = "init"
    /\ _predictor = None
    /\ reads = NoReads
    /\ loads = 0
    /\ returned = {}
    /\ last = [op |-> "none"]
    /\ running = Idle

NextExplain ==
    \/ CallGetPredictor
    \/ CallGetFeatureImportanceTopN

SpecExplain == InitExplain /\ [][NextExplain]_vars

\* The calls that can fail after the load: a classifier and an explainer that
\* may reject a row with a missing value, and feature maps that may hold a
\* value that is not a number.
StrictModel == [bias |-> 40, weight |-> 10, strict |-> TRUE]
StrictExplainer == [base |-> 10, scale |-> 5, pivot |-> 2, strict |-> TRUE]

FailFiles ==
    [model : {Pickled([bias |-> 40, weight |-> 10]), Pickled(StrictModel)},
     explainer : {Pickled(e) : e \in Explainers \cup {StrictExplainer}},
     feature_names : {Pickled(s) : s \in Schemas},
     threshold : {[kind |-> "absent"]}]

FailDicts ==
    {d \in SeqsUpTo((SchemaNames \cup UnknownNames) \X {Num(1), Str("invalid")}, MaxMapLen) :
        Injective([i \in DOMAIN d |-> d[i][1]])}

InitFail ==
    /\ files \in FailFiles
    /\ features \in FailDicts
    /\ app = "init"
    /\ _predictor = None
    /\ reads = NoReads
    /\ loads = 0
    /\ returned = {}
    /\ last = [op |-> "none"]
    /\ running = Idle

NextFail ==
    \/ CallGetPredictor
    \/ CallPredictProba
    \/ CallPredict
    \/ CallGetFeatureImportance

SpecFail == InitFail /\ [][NextFail]_vars

\* Concurrent callers. Each thread fetches the predictor with get_predictor()
\* and then runs one operation on its own feature map; a thread runs one
\* statement group at a time and the threads interleave freely.
Threads == {1, 2}
ThreadOps == {"predict_proba", "predict", "get_feature_importance"}
ThreadDicts == {<<(<<"a", Num(1)>>)>>, <<(<<"b", Num(3)>>), (<<"a", Num(1)>>)>>}
ThreadFiles ==
    [model : {Pickled([bias |-> 40, weight |-> 10])},
     explainer : {Pickled(e) : e \in Explainers},
     feature_names : {Pickled(<<"a", "b">>)},
     threshold : {[kind |-> "absent"]}]

\* A thread about to call get_predictor().
Started(op, d) ==
    [op |-> op, features |-> d, pc |-> "gp_test", predictor |-> None, X |-> None,
     overlapped |-> FALSE, mid |-> None, ret |-> None]

InitThreads ==
    /\ files \in ThreadFiles
    /\ features = <<>>
    /\ app = "init"
    /\ _predictor = None
    /\ reads = NoReads
    /\ loads = 0
    /\ returned = {}
    /\ last = [op |-> "none"]
    /\ \E ops \in [Threads -> ThreadOps], ds \in [Threads -> ThreadDicts] :
         running = [calls |-> [t \in Threads |-> Started(ops[t], ds[t])], row |-> None]

Call(t) == running.calls[t]
Step(t, call) == running' = [running EXCEPT !.calls[t] = call]

\* if _predictor is None:
GpTest(t) ==
    /\ Call(t).pc = "gp_test"
    /\ Step(t, [Call(t) EXCEPT !.pc = IF _predictor = None THEN "gp_construct"
                                      ELSE "gp_return"])
    /\ UNCHANGED <<files, features, app, _predictor, reads, loads, returned, last>>

\* _predictor = CreditScorePredictor(): the constructor loads the artifacts,
\* and the global is bound when it has returned.
GpConstruct(t) ==
    /\ Call(t).pc = "gp_construct"
    /\ LET c == CreditScorePredictor(loads + 1, files)
       IN  /\ reads' = Plus(reads, c.read)
           /\ loads' = loads + 1
           /\ _predictor' = IF c.raised THEN _predictor ELSE c.self
           /\ Step(t, [Call(t) EXCEPT !.pc = IF c.raised THEN "raised" ELSE "gp_return"])
    /\ UNCHANGED <<files, features, app, returned, last>>

\* return _predictor
GpReturn(t) ==
    /\ Call(t).pc = "gp_return"
    /\ returned' = returned \cup {_predictor.id}
    /\ Step(t, [Call(t) EXCEPT !.pc = "vectorize", !.predictor = _predictor])
    /\ UNCHANGED <<files, features, app, _predictor, reads, loads, last>>

\* The row a call hands to the model or the explainer is the one shared
\* buffer, which holds the row built last by any call.
RowShared(run, t) == run.row

\* The row a call hands to the model or the explainer: X is a local of the
\* call, bound to the array its own _prepare_features allocated.
RowOf(run, t) == run.calls[t].X

\* X = self._prepare_features(features)
Vectorize(t) ==
    /\ Call(t).pc = "vectorize"
    /\ LET v == _prepare_features(Call(t).predictor, Call(t).features)
       IN  running' = [calls |-> [running.calls EXCEPT
                                     ![t] = [@ EXCEPT !.pc = IF v.raised THEN "raised"
                                                              ELSE "score",
                                                      !.X = v.X]],
                       row |-> v.X]
    /\ UNCHANGED <<files, features, app, _predictor, reads, loads, returned, last>>

\* self.model.predict_proba(X)[0], or self.explainer(X)
Score(t) ==
    /\ Call(t).pc = "score"
    /\ LET self == Call(t).predictor
           X == RowOf(running, t)
           fails == IF Call(t).op = "get_feature_importance"
                    THEN ExplainerRaises(self.explainer, X)
                    ELSE ModelRaises(self.model, X)
       IN  Step(t, [Call(t) EXCEPT
                       !.pc = IF fails THEN "raised" ELSE "finish",
                       !.overlapped = running.row # Call(t).X,
                       !.mid = IF fails THEN None
                               ELSE IF Call(t).op = "get_feature_importance"
                               THEN Explain(self.explainer, X)
                               ELSE ModelProba(self.model, X)])
    /\ UNCHANGED <<files, features, app, _predictor, reads, loads, returned, last>>

\* The rest of the operation, up to its return.
Finish(t) ==
    /\ Call(t).pc = "finish"
    /\ LET self == Call(t).predictor
           mid == Call(t).mid
           thresh == ActiveThreshold(self, None)
       IN  Step(t, [Call(t) EXCEPT
                       !.pc = IF Call(t).op = "predict" /\ ~IsNum(thresh) THEN "raised"
                              ELSE "done",
                       !.ret = IF Call(t).op = "predict_proba" THEN mid
                               ELSE IF Call(t).op = "get_feature_importance"
                               THEN Importance(self.feature_names, mid, DEFAULT_TOP_N)
                               ELSE IF ~IsNum(thresh) THEN None
                               ELSE <<Prediction(mid[2], thresh),
                                      Decision(Prediction(mid[2], thresh))>>])
    /\ UNCHANGED <<files, features, app, _predictor, reads, loads, returned, last>>

NextThreads ==
    \E t \in Threads :
        \/ GpTest(t)
        \/ GpConstruct(t)
        \/ GpReturn(t)
        \/ Vectorize(t)
        \/ Score(t)
        \/ Finish(t)

SpecThreads == InitThreads /\ [][NextThreads]_vars

\* The service behind its HTTP boundary: startup, then requests. The artifact
\* files are one scorer, one explainer and one of two schemas, with at most
\* one of the three pickles missing, or a scorer that rejects a row with a
\* missing value; the request maps are built from two items.
HttpFiles ==
    {fs \in ArtifactFiles :
        /\ fs.model \in {Missing, Pickled([bias |-> 40, weight |-> 10])}
        /\ fs.feature_names \in {Missing, Pickled(<<"a", "b">>), Pickled(<<"b">>)}
        /\ fs.threshold \in {[kind |-> "absent"],
                              [kind |-> "json", data |-> ("threshold" :> Num(48))],
                              [kind |-> "json", data |-> ("threshold" :> None)]}
        /\ Cardinality({f \in {"model", "explainer", "feature_names"} : fs[f] = Missing}) <= 1}
    \cup {[model |-> Pickled(StrictModel), explainer |-> Pickled(e),
            feature_names |-> Pickled(<<"a", "b">>), threshold |-> [kind |-> "absent"]] :
             e \in Explainers}

HttpDicts ==
    {d \in Dicts : Range(d) \subseteq {<<"a", Num(1)>>, <<"b", Num(3)>>}}

InitHttp ==
    /\ files \in HttpFiles
    /\ features \in HttpDicts
    /\ app = "init"
    /\ _predictor = None
    /\ reads = NoReads
    /\ loads = 0
    /\ returned = {}
    /\ last = [op |-> "none"]
    /\ running = Idle

NextHttp ==
    \/ Lifespan
    \/ HttpPredict
    \/ HttpPredictBatch
    \/ HttpFeatureImportance

SpecHttp == InitHttp /\ [][NextHttp]_vars

----------------------------------------------------------------------------
(* Properties *)

Returned(op) == last.op = op /\ ~last.raised
ArtifactMissing == \E f \in {"model", "explainer", "feature_names"} : files[f] = Missing
HttpOps == {"/predict", "/predict/batch", "/feature-importance"}

\* C1: predict returns prediction 1 exactly when the default probability that
\* predict_proba gives for the same feature map is strictly greater than the
\* active threshold; on equality the result is (0, "APPROVED").
C1_StrictlyGreater ==
    Returned("predict") =>
        LET p == predict_proba(_predictor, features).ret[2]
            t == IF last.threshold # None THEN last.threshold ELSE get_threshold(_predictor)
        IN  /\ last.ret[1] = 1 <=> p.v > t.v
            /\ p.v = t.v => last.ret = <<0, "APPROVED">>

C1_Witness ==
    /\ Returned("predict")
    /\ predict_proba(_predictor, features).ret[2] = last.thresh
    /\ last.ret = <<0, "APPROVED">>

\* C2: every result of predict is (0, "APPROVED") or (1, "REJECTED"), so that
\* prediction 1 and the label REJECTED go together.
C2_TwoResults ==
    Returned("predict") =>
        /\ last.ret \in {<<0, "APPROVED">>, <<1, "REJECTED">>}
        /\ last.ret[1] = 1 <=> last.ret[2] = "REJECTED"

C2_Witness == Returned("predict") /\ last.ret = <<1, "REJECTED">>

C4_SchemaOrder ==
    Returned("_prepare_features") =>
        LET names == _predictor.feature_names
        IN  /\ Len(last.X) = Len(names)
            /\ \A i \in 1..Len(names) :
                 last.X[i] = IF \E j \in DOMAIN features : features[j][1] = names[i]
                             THEN Get(features, names[i])
                             ELSE NaN

C4_Witness ==
    /\ Returned("_prepare_features")
    /\ _predictor.feature_names = <<"a", "b">>
    /\ features = <<(<<"b", Num(3)>>), (<<"a", Num(1)>>)>>
    /\ last.X = <<Num(1), Num(3)>>

\* C5: names of the map that the schema does not have are dropped without an
\* error: the vector of a map is the vector of the map restricted to the
\* schema's names.
Restricted(d, names) ==
    LET InSchema(item) == item[1] \in Range(names) IN SelectSeq(d, InSchema)

C5_UnknownDropped ==
    last.op = "_prepare_features" =>
        /\ ~last.raised
        /\ last.X = _prepare_features(_predictor,
                                       Restricted(features, _predictor.feature_names)).X

C5_Witness ==
    /\ Returned("_prepare_features")
    /\ Keys(features) \cap UnknownNames # {}
    /\ Keys(features) \cap Range(_predictor.feature_names) # {}

\* C6: the vectorizer takes an empty map without raising and returns one NaN
\* per schema position.
C6_EmptyAllMissing ==
    (last.op = "_prepare_features" /\ features = <<>>) =>
        /\ ~last.raised
        /\ Len(last.X) = Len(_predictor.feature_names)
        /\ \A i \in DOMAIN last.X : last.X[i] = NaN

C6_Witness ==
    /\ Returned("_prepare_features")
    /\ features = <<>>
    /\ last.X = <<NaN, NaN>>

\* C7: a request that carries an empty feature map is answered 422 by the
\* validation of the body, before any predictor operation: no get_predictor
\* call, no load and no call of the model.
HasEmptyMap(request) ==
    IF last.op = "/predict/batch"
    THEN \E i \in DOMAIN request : request[i].features = <<>>
    ELSE request.features = <<>>

C7_EmptyRejectedAtBoundary ==
    (last.op \in HttpOps /\ HasEmptyMap(last.request)) =>
        /\ last.status = 422
        /\ last.calls = 0
        /\ last.loads = 0

\* A batch whose first client is valid and whose second has an empty map.
C7_Witness ==
    /\ last.op = "/predict/batch"
    /\ Len(last.request) = 2
    /\ last.request[1].features # <<>>
    /\ last.request[2].features = <<>>
    /\ last.status = 422
    /\ _predictor # None

\* C8, as stated: after any sequence of get_predictor calls the artifacts
\* have been loaded from the files exactly once.
C8_LoadedOnce ==
    /\ loads <= 1
    /\ \A f \in DOMAIN reads : reads[f] <= 1

\* C8, amended: once a get_predictor call has returned an instance, every
\* call returns that instance and no call runs the loader or reads a file
\* again; a call that raises leaves the global unset.
C8_OneInstance ==
    /\ Cardinality(returned) <= 1
    /\ (returned # {} \/ _predictor # None) =>
          /\ returned = {_predictor.id}
          /\ loads = _predictor.id
          /\ \A f \in DOMAIN reads : reads[f] <= _predictor.id
    /\ Returned("get_predictor") => last.ret = _predictor

\* A get_predictor call after startup has loaded the instance.
C8_Witness ==
    /\ Returned("get_predictor")
    /\ app = "serving"
    /\ loads = 1
    /\ reads.model = 1

\* C9: with the model, the explainer and the feature names loadable and no
\* threshold file, loading succeeds and get_threshold returns 0.5.
C9_DefaultThreshold ==
    (~ArtifactMissing /\ files.threshold.kind = "absent") =>
        /\ last.op \in {"get_predictor", "lifespan"} => ~last.raised
        /\ _predictor # None => get_threshold(_predictor) = Num(DEFAULT_THRESHOLD)
        /\ Returned("get_threshold") => last.ret = Num(DEFAULT_THRESHOLD)

C9_Witness ==
    /\ files.threshold.kind = "absent"
    /\ Returned("get_threshold")
    /\ last.ret = Num(DEFAULT_THRESHOLD)

\* C10: when the model, the explainer or the feature names cannot be loaded,
\* get_predictor raises and leaves the global unset, and startup fails.
C10_LoadFailureFatal ==
    ArtifactMissing =>
        /\ _predictor = None
        /\ returned = {}
        /\ app # "serving"
        /\ last.op \in {"get_predictor", "lifespan"} => last.raised
        /\ last.op = "lifespan" => app = "failed"

\* Startup has failed on the feature names, after the model and the
\* explainer were read.
C10_Witness ==
    /\ files.feature_names = Missing
    /\ reads.explainer = 1
    /\ last.op = "lifespan"
    /\ app = "failed"
    /\ _predictor = None


\* ---------------------------------------------------------------------------
\* C11. After a successful load, the threshold that get_threshold returns is a
\* number strictly between 0 and 1 (0 and 100 in hundredths), whatever the
\* threshold file holds.
C11_ThresholdInUnitInterval ==
    Held => /\ IsNum(get_threshold(_predictor))
            /\ get_threshold(_predictor).v > 0
            /\ get_threshold(_predictor).v < 100

\* ---------------------------------------------------------------------------
\* C12. No call of predict_proba, predict (with or without an override),
\* get_feature_importance, get_threshold or is_loaded changes the loaded
\* bundle: whatever calls were made, the instance held is the one the load
\* built from the artifact files, get_threshold returns the loaded threshold,
\* and predict without an override compares against it.
C12_BundleAsLoaded ==
    Held =>
        /\ _predictor = CreditScorePredictor(_predictor.id, files).self
        /\ Returned("get_threshold") =>
               last.ret = CreditScorePredictor(_predictor.id, files).self.threshold
        /\ (Returned("predict") /\ last.threshold = None) =>
               last.thresh = CreditScorePredictor(_predictor.id, files).self.threshold

\* predict ran with an override that differs from the stored threshold.
C12_Witness ==
    /\ Held
    /\ Returned("predict")
    /\ IsNum(last.threshold)
    /\ last.threshold # _predictor.threshold


\* ---------------------------------------------------------------------------
\* C13. predict_proba(F) is deterministic on a loaded predictor: whatever
\* operations ran before a call, it returns the pair that the freshly loaded
\* bundle gives for F, so any two calls with the same F return the same pair.
C13_SamePairEveryCall ==
    (Held /\ Returned("predict_proba")) =>
        last.ret = predict_proba(CreditScorePredictor(_predictor.id, files).self,
                                 features).ret

\* predict_proba returned for a map that sets a feature of a schema with a
\* repeated or a second name, where a changed schema changes the pair.
C13_Witness ==
    /\ Held
    /\ Returned("predict_proba")
    /\ Len(_predictor.feature_names) > 1
    /\ \E i \in DOMAIN _predictor.feature_names :
         _predictor.feature_names[i] \in Keys(features)
    /\ _predictor.model.weight # 0


\* ---------------------------------------------------------------------------
\* C14. The pair predict_proba returns has both components in [0, 1] and a sum
\* within 0.01 of 1 (0..100 and within 1 of 100, in hundredths).
C14_PairIsDistribution ==
    Returned("predict_proba") =>
        /\ \A k \in 1..2 : IsNum(last.ret[k]) /\ last.ret[k].v >= 0 /\ last.ret[k].v <= 100
        /\ Abs(last.ret[1].v + last.ret[2].v - 100) <= 1

\* predict_proba returned a pair with unequal components, neither of them 0.
C14_Witness ==
    /\ Returned("predict_proba")
    /\ last.ret[2].v > 50
    /\ last.ret[2].v < 100


\* ---------------------------------------------------------------------------
\* The result of the last get_feature_importance call, and what it was about.
Explained == Returned("get_feature_importance")
Shap == last.ret.shap_values
TopPositive == last.ret.top_positive_features
TopNegative == last.ret.top_negative_features
Attributions == Explain(_predictor.explainer, _prepare_features(_predictor, features).X).values
Names(items) == {items[k][1] : k \in DOMAIN items}
PositiveKeys == {k \in DOMAIN Shap : Shap[k][2] > 0}
NegativeKeys == {k \in DOMAIN Shap : Shap[k][2] < 0}

\* C15. Every entry of top_positive_features has a value > 0 and every entry
\* of top_negative_features has a value < 0.
C15_SignPartition ==
    Explained =>
        /\ \A k \in DOMAIN TopPositive : TopPositive[k][2] > 0
        /\ \A k \in DOMAIN TopNegative : TopNegative[k][2] < 0

\* Both lists have entries and some feature has attribution zero.
C15_Witness ==
    /\ Explained
    /\ TopPositive # <<>>
    /\ TopNegative # <<>>
    /\ \E k \in DOMAIN Shap : Shap[k][2] = 0

\* C16. For every top_n, zero and negative ones included, neither list has
\* more than top_n entries.
C16_AtMostTopN ==
    Explained =>
        /\ Len(TopPositive) <= last.top_n
        /\ Len(TopNegative) <= last.top_n

\* C16, amended. For top_n >= 0 neither list has more than top_n entries; for
\* top_n < 0 each list is its ranked partition less its last -top_n entries.
C16_AtMostTopNFromZero ==
    Explained =>
        /\ last.top_n >= 0 =>
               /\ Len(TopPositive) <= last.top_n
               /\ Len(TopNegative) <= last.top_n
        /\ last.top_n < 0 =>
               /\ Len(TopPositive) = Max(Cardinality(PositiveKeys) + last.top_n, 0)
               /\ Len(TopNegative) = Max(Cardinality(NegativeKeys) + last.top_n, 0)

\* top_n cut a partition of two or more features down to one entry.
C16_Witness ==
    /\ Explained
    /\ last.top_n = 1
    /\ Cardinality(PositiveKeys) >= 2
    /\ Len(TopPositive) = 1

\* C17. Within each list the entries are in order of non-increasing absolute
\* value.
C17_RankedByMagnitude ==
    Explained =>
        /\ \A k \in 1..(Len(TopPositive) - 1) :
             Abs(TopPositive[k][2]) >= Abs(TopPositive[k + 1][2])
        /\ \A k \in 1..(Len(TopNegative) - 1) :
             Abs(TopNegative[k][2]) >= Abs(TopNegative[k + 1][2])

\* Both lists hold two entries of different magnitudes.
C17_Witness ==
    /\ Explained
    /\ Len(TopNegative) >= 2
    /\ Abs(TopNegative[1][2]) > Abs(TopNegative[2][2])
    /\ Len(TopPositive) >= 1

\* C18. Each list holds the largest-magnitude attributions of its sign
\* partition of the returned mapping: its entries are entries of the mapping,
\* no feature of the partition that is left out has a larger absolute value
\* than a listed one, and a partition of at most top_n features is listed
\* whole.
C18_TopOfPartition ==
    Explained =>
        /\ Range(TopPositive) \subseteq Range(Shap)
        /\ Range(TopNegative) \subseteq Range(Shap)
        /\ \A k \in PositiveKeys :
             Shap[k] \notin Range(TopPositive) =>
                 \A j \in DOMAIN TopPositive : Abs(Shap[k][2]) <= Abs(TopPositive[j][2])
        /\ \A k \in NegativeKeys :
             Shap[k] \notin Range(TopNegative) =>
                 \A j \in DOMAIN TopNegative : Abs(Shap[k][2]) <= Abs(TopNegative[j][2])
        /\ Cardinality(PositiveKeys) <= last.top_n =>
               \A k \in PositiveKeys : Shap[k] \in Range(TopPositive)
        /\ Cardinality(NegativeKeys) <= last.top_n =>
               \A k \in NegativeKeys : Shap[k] \in Range(TopNegative)

\* A negative partition of three features, the largest not first in the
\* schema, cut to two entries; the positive partition listed whole.
C18_Witness ==
    /\ Explained
    /\ last.top_n = 2
    /\ Cardinality(NegativeKeys) = 3
    /\ Len(TopNegative) = 2
    /\ Abs(Shap[1][2]) < Abs(TopNegative[1][2])
    /\ Cardinality(PositiveKeys) <= 2

\* C19. A feature whose attribution is zero is in neither list, and it still
\* has its entry, with value 0, in the shap_values mapping.
C19_ZeroListedNowhere ==
    Explained =>
        /\ \A k \in DOMAIN Shap :
             Shap[k][2] = 0 => Shap[k][1] \notin Names(TopPositive) \cup Names(TopNegative)
        /\ \A i \in DOMAIN Attributions :
             (/\ Attributions[i] = 0
              /\ \A j \in DOMAIN Attributions :
                   j # i => _predictor.feature_names[j] # _predictor.feature_names[i])
             => /\ <<_predictor.feature_names[i], 0>> \in Range(Shap)
                /\ _predictor.feature_names[i] \notin Names(TopPositive) \cup Names(TopNegative)

\* A zero attribution next to a positive and a negative one, top_n large
\* enough to list every feature.
C19_Witness ==
    /\ Explained
    /\ last.top_n = DEFAULT_TOP_N
    /\ \E i \in DOMAIN Attributions : Attributions[i] = 0
    /\ \E k \in DOMAIN Shap : Shap[k][2] = 0
    /\ Len(TopPositive) = 1
    /\ Len(TopNegative) = 1

\* C20. base_value plus the sum of the values of the returned shap_values
\* mapping equals the returned prediction_value.
C20_Reconstruction ==
    Explained =>
        last.ret.base_value + SumSeq([k \in DOMAIN Shap |-> Shap[k][2]])
            = last.ret.prediction_value


\* ---------------------------------------------------------------------------
\* C21. The shap_values mapping labels the attributions by schema position:
\* for every position i the entry of feature_names[i] holds the explainer's
\* attribution at position i of the row, and the mapping has one entry per
\* schema name.
C21_LabelledByPosition ==
    Explained =>
        /\ \A i \in DOMAIN Attributions :
             <<_predictor.feature_names[i], Attributions[i]>> \in Range(Shap)
        /\ Names(Shap) = Range(_predictor.feature_names)
        /\ Injective([k \in DOMAIN Shap |-> Shap[k][1]])


\* ---------------------------------------------------------------------------
\* The feature map holds a value that is not a number for a schema name; the
\* row has a missing value.
NonNumeric ==
    \E k \in DOMAIN features :
        /\ features[k][1] \in Range(_predictor.feature_names)
        /\ features[k][2].kind = "str"
RowHasNaN == \E i \in DOMAIN _predictor.feature_names :
                 _predictor.feature_names[i] \notin Keys(features)

\* C24. When the vectorization of a non-numeric value fails, or the model's
\* predict_proba fails, predict_proba and predict raise that error and return
\* no probability and no decision.
C24_ScoringErrorRaised ==
    (Held /\ last.op \in {"predict_proba", "predict"}) =>
        /\ NonNumeric =>
               last.raised /\ last.error = "ValueError" /\ last.ret = None
        /\ (~NonNumeric /\ RowHasNaN /\ "strict" \in DOMAIN _predictor.model) =>
               last.raised /\ last.error = "ModelError" /\ last.ret = None

\* predict raised the error of a value that is not a number.
C24_Witness ==
    /\ Held
    /\ last.op = "predict"
    /\ NonNumeric
    /\ last.raised
    /\ last.error = "ValueError"

\* C25. When the explainer fails on a row, get_feature_importance raises that
\* error and returns no result, empty or partial.
C25_ExplainerErrorRaised ==
    (/\ Held
     /\ last.op = "get_feature_importance"
     /\ ~NonNumeric
     /\ RowHasNaN
     /\ "strict" \in DOMAIN _predictor.explainer)
    => last.raised /\ last.error = "ExplainerError" /\ last.ret = None

\* get_feature_importance raised the explainer's error.
C25_Witness ==
    /\ Held
    /\ last.op = "get_feature_importance"
    /\ last.raised
    /\ last.error = "ExplainerError"


\* ---------------------------------------------------------------------------
\* The last request was a batch that was answered with 200.
BatchAnswered == last.op = "/predict/batch" /\ last.status = 200

\* C22. A successful batch response has as many predictions as the request
\* has clients, and predictions[i] carries the client_id of client i and the
\* probabilities and the decision computed from client i's feature map.
C22_BatchKeepsOrder ==
    BatchAnswered =>
        /\ Len(last.body.predictions) = Len(last.request)
        /\ \A i \in DOMAIN last.request :
             LET p == last.body.predictions[i]
                 c == last.request[i]
             IN  /\ p.client_id = c.client_id
                 /\ <<p.probability_no_default, p.probability_default>>
                        = predict_proba(_predictor, c.features).ret
                 /\ <<p.prediction, p.decision>> = predict(_predictor, c.features, None).ret

\* Two clients with their ids, the first rejected and the second approved.
C22_Witness ==
    /\ BatchAnswered
    /\ Len(last.request) = 2
    /\ last.request[1].client_id = Str("1")
    /\ last.request[2].client_id = Str("2")
    /\ last.body.predictions[1].decision = "REJECTED"
    /\ last.body.predictions[2].decision = "APPROVED"
    /\ last.body.predictions[1].probability_default
           # last.body.predictions[2].probability_default

\* C23. In a successful batch response total_clients is the number of clients
\* of the request and of predictions, approved_count and rejected_count are
\* the numbers of predictions with decision APPROVED and REJECTED, and they
\* add up to total_clients; an empty list gives 0 for all three.
C23_BatchCounts ==
    BatchAnswered =>
        LET b == last.body
            With(decision) == {i \in DOMAIN b.predictions : b.predictions[i].decision = decision}
        IN  /\ b.total_clients = Len(last.request)
            /\ b.total_clients = Len(b.predictions)
            /\ b.approved_count = Cardinality(With("APPROVED"))
            /\ b.rejected_count = Cardinality(With("REJECTED"))
            /\ b.approved_count + b.rejected_count = b.total_clients
            /\ last.request = <<>> =>
                   b.total_clients = 0 /\ b.approved_count = 0 /\ b.rejected_count = 0

\* Two clients, one approved and one rejected.
C23_Witness ==
    /\ BatchAnswered
    /\ last.body.total_clients = 2
    /\ last.body.approved_count = 1
    /\ last.body.rejected_count = 1


\* ---------------------------------------------------------------------------
\* C27. No prediction or explanation is answered from a bundle that is not
\* loaded completely: a 200 of /predict, /predict/batch or /feature-importance
\* comes after a load that read the model, the explainer and the feature
\* names, and while an artifact is missing no request is answered with 200.
C27_LoadedBeforeServed ==
    (last.op \in HttpOps /\ last.status = 200) =>
        /\ ~ArtifactMissing
        /\ _predictor # None
        /\ loads >= 1
        /\ reads.model >= 1 /\ reads.explainer >= 1 /\ reads.feature_names >= 1
        /\ _predictor.model = files.model.obj
        /\ _predictor.explainer = files.explainer.obj
        /\ _predictor.feature_names = files.feature_names.obj

\* A request answered before startup ran: the request itself loaded the
\* bundle.
C27_Witness ==
    /\ last.op = "/feature-importance"
    /\ last.status = 200
    /\ last.loads = 1
    /\ app = "init"

\* The items of the last successful /predict or /predict/batch response.
ResponseItems ==
    IF last.op = "/predict" /\ last.status = 200 THEN {last.body}
    ELSE IF BatchAnswered THEN Range(last.body.predictions)
    ELSE {}

\* C28. Every item of a successful /predict or /predict/batch response is
\* consistent: its decision is REJECTED, and its prediction 1, exactly when
\* its probability_default is strictly greater than its threshold_used.
C28_ResponseConsistent ==
    \A p \in ResponseItems :
        /\ p.decision = "REJECTED" <=> p.probability_default.v > p.threshold_used.v
        /\ p.prediction = 1 <=> p.decision = "REJECTED"
        /\ p.decision \in {"APPROVED", "REJECTED"}

\* A rejection with the probability between the threshold of the file and
\* the default threshold.
C28_Witness ==
    /\ last.op = "/predict"
    /\ last.status = 200
    /\ last.body.decision = "REJECTED"
    /\ last.body.threshold_used.v < last.body.probability_default.v
    /\ last.body.probability_default.v <= DEFAULT_THRESHOLD

\* Scoring fails for the client: predict_proba or predict raises on its map.
ScoringFails(client) ==
    \/ predict_proba(_predictor, client.features).raised
    \/ predict(_predictor, client.features, None).raised

\* C30. A batch in which scoring fails for a client is answered with 500 and
\* without body: the predictions computed for earlier clients are not
\* returned.
C30_BatchAllOrNothing ==
    (/\ last.op = "/predict/batch"
     /\ last.status # 422
     /\ _predictor # None
     /\ \E i \in DOMAIN last.request : ScoringFails(last.request[i]))
    => last.status = 500 /\ last.body = None

\* The first client was scored, the second failed.
C30_Witness ==
    /\ last.op = "/predict/batch"
    /\ _predictor # None
    /\ Len(last.request) = 2
    /\ ~ScoringFails(last.request[1])
    /\ ScoringFails(last.request[2])
    /\ last.status = 500
    /\ last.calls = 3


\* ---------------------------------------------------------------------------
\* What the operation of thread t returns when it runs alone on the thread's
\* predictor and feature map.
Alone(t) ==
    LET c == running.calls[t]
    IN  IF c.op = "predict_proba" THEN predict_proba(c.predictor, c.features).ret
        ELSE IF c.op = "predict" THEN predict(c.predictor, c.features, None).ret
        ELSE get_feature_importance(c.predictor, c.features, DEFAULT_TOP_N).ret

\* C26. Whatever the interleaving of concurrent predict_proba, predict and
\* get_feature_importance calls, each call returns what it returns when run
\* alone on the same feature map.
C26_IsolatedRequests ==
    \A t \in DOMAIN running.calls :
        running.calls[t].pc = "done" => running.calls[t].ret = Alone(t)

\* Two calls on different maps have returned, and one of them scored its row
\* after the other call had built a different row.
C26_Witness ==
    /\ \A t \in DOMAIN running.calls : running.calls[t].pc = "done"
    /\ \E t \in DOMAIN running.calls : running.calls[t].overlapped
    /\ \E t, u \in DOMAIN running.calls :
         running.calls[t].features # running.calls[u].features

\* C29. When two callers run get_predictor concurrently while the global is
\* unset, the artifacts are loaded at most once and both callers get the same
\* instance.
C29_OneLoadWhenRacing ==
    /\ loads <= 1
    /\ \A t, u \in DOMAIN running.calls :
         (running.calls[t].predictor # None /\ running.calls[u].predictor # None)
             => running.calls[t].predictor.id = running.calls[u].predictor.id

====
